---- MODULE Spec2Model ----
(***************************************************************************)
(* Model of prow/plugins/releasenote/releasenote.go: the release-note      *)
(* plugin.  One pull request is tracked.  The tracker (labels, comments,   *)
(* body, base branch, the labels of the cherry-pick parents) is the state; *)
(* each handler invocation (handleComment, handlePR) is one atomic action  *)
(* that issues its external calls in source order.  Every external call    *)
(* may fail: the set of failing call positions is an input of the action.  *)
(*                                                                         *)
(* Text is modelled as sequences of tokens (a token is a fragment of the   *)
(* text that the code's matching never splits), so trimming, lower-casing, *)
(* line-anchored matching and substring search are computed, not assumed.  *)
(***************************************************************************)
EXTENDS Integers, Sequences, FiniteSets, TLC

VARIABLES labels, body, base, parentLabels, comments, run

vars == <<labels, body, base, parentLabels, comments, run>>

(***************************************************************************)
(* Bounds of the model.                                                    *)
(***************************************************************************)
\* at most this many external calls of one invocation fail
MaxFails == 1
\* the tracker holds at most this many comments of the PR
MaxComments == 4
\* a release-note block holds at most this many tokens
MaxNote == 4

(***************************************************************************)
(* Constants of the program.                                               *)
(***************************************************************************)
deprecatedReleaseNoteLabelNeeded == "release-note-label-needed"
releaseNoteLabelNeeded == "do-not-merge/release-note-label-needed"
releaseNote == "release-note"
releaseNoteNone == "release-note-none"
releaseNoteActionRequired == "release-note-action-required"

\* fmt.Sprintf(releaseNoteFormat, label): one token per rendered template
releaseNoteBody == "Adding do-not-merge/release-note-label-needed because the release note process has not been followed."
deprecatedReleaseNoteBody == "Adding release-note-label-needed because the release note process has not been followed."
parentReleaseNoteBody == "All 'parent' PRs of a cherry-pick PR must have one of the labels, or this PR must follow the standard/parent release note labeling requirement."
releaseNoteSuffix == "One of the following labels is required."

noReleaseNoteComment == <<"none">>
actionRequiredNote == <<"action", " ", "required">>

allRNLabels ==
  << releaseNoteNone, releaseNoteActionRequired, deprecatedReleaseNoteLabelNeeded,
     releaseNoteLabelNeeded, releaseNote >>

\* the three command patterns, as the token sequence a line must start with
releaseNoteRe == <<"/release-note">>
releaseNoteNoneRe == <<"/release-note", "-none">>
releaseNoteActionRequiredRe == <<"/release-note", "-action-required">>

\* replies of the comment path
deprecatedCommandResp == "the /release-note and /release-note-action-required commands have been deprecated."
notAuthorizedResp == "you can only set the release note label to release-note-none if you are the PR author or an org member."
blockNotEmptyResp == "you can only set the release note label to release-note-none if the release-note block in the PR body text is empty or none."

(***************************************************************************)
(* Generic helpers.                                                        *)
(***************************************************************************)
Range(s) == {s[i] : i \in 1..Len(s)}

RECURSIVE SelectWhere(_, _)
\* the subsequence of s whose positions are in keep
SelectWhere(s, keep) ==
  IF s = <<>> THEN <<>>
  ELSE LET front == SelectWhere(SubSeq(s, 1, Len(s) - 1), keep)
       IN  IF Len(s) \in keep THEN Append(front, s[Len(s)]) ELSE front

(***************************************************************************)
(* strings.ToLower, strings.TrimSpace, strings.Contains on token text.     *)
(***************************************************************************)
ToLower(tok) ==
  CASE tok = "NONE" -> "none"
    [] tok = "Action" -> "action"
    [] tok = "Required" -> "required"
    [] tok = "/RELEASE-NOTE" -> "/release-note"
    [] tok = "-NONE" -> "-none"
    [] tok = "Release-Note-Action-Required" -> "release-note-action-required"
    [] OTHER -> tok

ToLowerText(s) == [i \in 1..Len(s) |-> ToLower(s[i])]

IsSpace(tok) == tok \in {" ", "\n"}

TrimSpace(s) ==
  LET solid == {i \in 1..Len(s) : ~IsSpace(s[i])}
  IN  IF solid = {} THEN <<>>
      ELSE LET lo == CHOOSE i \in solid : \A j \in solid : i <= j
               hi == CHOOSE i \in solid : \A j \in solid : j <= i
           IN  SubSeq(s, lo, hi)

Contains(s, sub) ==
  \E i \in 0..(Len(s) - Len(sub)) : SubSeq(s, i + 1, i + Len(sub)) = sub

(***************************************************************************)
(* Pure functions of the plugin.                                           *)
(*                                                                         *)
(* A PR body is [blocks, lines]: blocks are the contents of the fenced     *)
(* release-note blocks noteMatcherRE can match, in body order; lines are   *)
(* the lines of the body that cpRe is tried on.  A comment body is a       *)
(* sequence of lines, each a sequence of tokens.                           *)
(***************************************************************************)
\* hasLabel: case-insensitive membership
hasLabel(label, issueLabels) ==
  \E l \in issueLabels : ToLower(l) = ToLower(label)

\* getReleaseNote: the trimmed first submatch of noteMatcherRE, or ""
getReleaseNote(b) ==
  IF b.blocks = <<>> THEN <<>> ELSE TrimSpace(b.blocks[1])

\* determineReleaseNoteLabel with the third test an equality
determineReleaseNoteLabel_actionEquals(b) ==
  LET composedReleaseNote == ToLowerText(TrimSpace(getReleaseNote(b)))
  IN  IF composedReleaseNote = <<>> THEN releaseNoteLabelNeeded
      ELSE IF composedReleaseNote = noReleaseNoteComment THEN releaseNoteNone
      ELSE IF composedReleaseNote = actionRequiredNote THEN releaseNoteActionRequired
      ELSE releaseNote

determineReleaseNoteLabel(b) ==
  LET composedReleaseNote == ToLowerText(TrimSpace(getReleaseNote(b)))
  IN  IF composedReleaseNote = <<>> THEN releaseNoteLabelNeeded
      ELSE IF composedReleaseNote = noReleaseNoteComment THEN releaseNoteNone
      ELSE IF Contains(composedReleaseNote, actionRequiredNote) THEN releaseNoteActionRequired
      ELSE releaseNote

\* cpRe.FindStringSubmatch(line): <<whole match, parent digits, release>> or <<>>
cpReSubmatch(line) ==
  CASE line = "Cherry pick of #1 on release-1.4." -> <<line, "1", "1.4">>
    [] line = "Cherry pick of #2 on release-1.4." -> <<line, "2", "1.4">>
    [] line = "Cherry pick of #99999999999999999999 on release-1.4." ->
         <<line, "99999999999999999999", "1.4">>
    [] OTHER -> <<>>

\* strconv.Atoi: [ok, n]; digits beyond the int range are an error
Atoi(digits) ==
  CASE digits = "1" -> [ok |-> TRUE, n |-> 1]
    [] digits = "2" -> [ok |-> TRUE, n |-> 2]
    [] OTHER -> [ok |-> FALSE, n |-> 0]

getCherrypickParentPRNums(b) ==
  LET parses(i) == Len(cpReSubmatch(b.lines[i])) = 3
                   /\ Atoi(cpReSubmatch(b.lines[i])[2]).ok
      kept == SelectWhere(b.lines, {i \in 1..Len(b.lines) : parses(i)})
  IN  [i \in 1..Len(kept) |-> Atoi(cpReSubmatch(kept[i])[2]).n]

\* (?mi)^<command>\s*$ on one line
lineMatches(re, line) ==
  LET low == ToLowerText(line)
  IN  /\ Len(low) >= Len(re)
      /\ SubSeq(low, 1, Len(re)) = re
      /\ \A i \in (Len(re) + 1)..Len(low) : IsSpace(low[i])

\* Regexp.MatchString on a comment body
MatchString(re, cbody) == \E i \in 1..Len(cbody) : lineMatches(re, cbody[i])

containsNoneCommand(cs) ==
  \E i \in 1..Len(cs) : MatchString(releaseNoteNoneRe, cs[i].body)

releaseNoteAlreadyAdded(prLabels) ==
  \/ hasLabel(releaseNote, prLabels)
  \/ hasLabel(releaseNoteActionRequired, prLabels)
  \/ hasLabel(releaseNoteNone, prLabels)

(***************************************************************************)
(* The tracker behind the githubClient interface.                          *)
(*                                                                         *)
(* An invocation threads a context x through its calls:                    *)
(*   x.labels, x.comments   the PR's labels and comments on the tracker    *)
(*   x.parentLabels         the labels of the other PRs (read only)        *)
(*   x.calls                the calls issued so far, in order              *)
(*   x.fails                the positions in x.calls of the calls that     *)
(*                          fail                                           *)
(* A failing call changes nothing on the tracker.                          *)
(***************************************************************************)
Repo == [pr |-> 3, parents |-> {1, 2}]

Author == "author"
Users == {Author, "member", "outsider"}
Members == {"member"}
botName == "k8s-ci-robot"

NoLine == <<>>

Call(op, label, num, cbody, ok) ==
  [op |-> op, label |-> label, num |-> num, body |-> cbody, ok |-> ok]

\* whether the call about to be issued succeeds
NextOk(x) == (Len(x.calls) + 1) \notin x.fails

\* whether the call issued last succeeded
LastOk(x) == x.calls[Len(x.calls)].ok

Issue(x, op, label, num, cbody) ==
  [x EXCEPT !.calls = Append(@, Call(op, label, num, cbody, NextOk(x)))]

AddLabel(x, label) ==
  [Issue(x, "AddLabel", label, Repo.pr, NoLine) EXCEPT
     !.labels = IF NextOk(x) THEN @ \cup {label} ELSE @]

RemoveLabel(x, label) ==
  [Issue(x, "RemoveLabel", label, Repo.pr, NoLine) EXCEPT
     !.labels = IF NextOk(x) THEN {l \in @ : ToLower(l) # ToLower(label)} ELSE @]

CreateComment(x, cbody) ==
  [Issue(x, "CreateComment", "", Repo.pr, cbody) EXCEPT
     !.comments = IF NextOk(x) THEN Append(@, [user |-> botName, body |-> cbody]) ELSE @]

\* the call; the labels it returns are read with IssueLabelsOf
GetIssueLabels(x, number) == Issue(x, "GetIssueLabels", "", number, NoLine)

IssueLabelsOf(x, number) ==
  IF number = Repo.pr THEN x.labels ELSE x.parentLabels[number]

ListIssueComments(x) == Issue(x, "ListIssueComments", "", Repo.pr, NoLine)

IsMember(x, user) == Issue(x, "IsMember", user, Repo.pr, NoLine)

BotName(x) == Issue(x, "BotName", "", Repo.pr, NoLine)

\* DeleteStaleComments deletes the comments of the list it is given that are
\* in the set stale; given nil, it lists the PR's comments itself.  fetched is
\* [nil, list]: the list is a prefix of the tracker's comments, since an
\* invocation only appends after it has listed.
DeleteStaleComments(x, fetched, stale) ==
  LET n == IF fetched.nil THEN Len(x.comments) ELSE Len(fetched.list)
      keep == {i \in 1..Len(x.comments) : i > n \/ x.comments[i] \notin stale}
  IN  [Issue(x, "DeleteStaleComments", "", Repo.pr, NoLine) EXCEPT
         !.comments = IF NextOk(x) THEN SelectWhere(@, keep) ELSE @]

\* plugins.FormatResponse(to, message, reason)
FormatResponse(to, message, reason) == << <<"@", to, ": ", message>>, reason >>

\* plugins.FormatICResponse(comment, reply): the reply, then the comment quoted
FormatICResponse(ic, reply) ==
  << <<"@", ic.user, ": ", reply>> >> \o [i \in 1..Len(ic.body) |-> <<">">> \o ic.body[i]]

(***************************************************************************)
(* The comment path.                                                       *)
(*                                                                         *)
(* An issue-comment event ic is [isPR, action, user, body, issueBody,      *)
(* issueLabels]: the comment and the issue as the event carries them.      *)
(* A handler returns [x, err, path]: the context after its last call,      *)
(* whether it returned an error, and the branch it returned from.          *)
(***************************************************************************)
Return(x, err, path) == [x |-> x, err |-> err, path |-> path]

RECURSIVE removeFrom_stopsAtError(_, _, _, _, _)
\* the loop of removeOtherLabels leaving at the first failed removal
removeFrom_stopsAtError(x, i, label, labelSet, currentLabels) ==
  IF i > Len(labelSet) THEN [x |-> x, errs |-> 0]
  ELSE IF labelSet[i] # label /\ hasLabel(labelSet[i], currentLabels)
       THEN LET x1 == RemoveLabel(x, labelSet[i])
                rest == removeFrom_stopsAtError(x1, i + 1, label, labelSet, currentLabels)
            IN  IF LastOk(x1) THEN rest ELSE [x |-> x1, errs |-> 1]
       ELSE removeFrom_stopsAtError(x, i + 1, label, labelSet, currentLabels)

RECURSIVE removeFrom(_, _, _, _, _)
\* the loop of removeOtherLabels from labelSet[i] on: [x, errs]
removeFrom(x, i, label, labelSet, currentLabels) ==
  IF i > Len(labelSet) THEN [x |-> x, errs |-> 0]
  ELSE IF labelSet[i] # label /\ hasLabel(labelSet[i], currentLabels)
       THEN LET x1 == RemoveLabel(x, labelSet[i])
                rest == removeFrom(x1, i + 1, label, labelSet, currentLabels)
            IN  [x |-> rest.x, errs |-> rest.errs + (IF LastOk(x1) THEN 0 ELSE 1)]
       ELSE removeFrom(x, i + 1, label, labelSet, currentLabels)

\* removeOtherLabels with a loop that stops one element short of labelSet
removeOtherLabels_stopsShort(x, label, labelSet, currentLabels) ==
  LET r == removeFrom(x, 1, label, SubSeq(labelSet, 1, Len(labelSet) - 1), currentLabels)
  IN  [x |-> r.x, err |-> r.errs > 0, errs |-> r.errs]

\* [x, err, errs]: err iff len(errs) > 0
removeOtherLabels(x, label, labelSet, currentLabels) ==
  LET r == removeFrom(x, 1, label, labelSet, currentLabels)
  IN  [x |-> r.x, err |-> r.errs > 0, errs |-> r.errs]

\* the switch with the none case tried first
commandOf_noneFirst(cbody) ==
  IF MatchString(releaseNoteNoneRe, cbody) THEN releaseNoteNone
  ELSE IF MatchString(releaseNoteRe, cbody) THEN releaseNote
  ELSE IF MatchString(releaseNoteActionRequiredRe, cbody) THEN releaseNoteActionRequired
  ELSE ""

\* the switch of handleComment: the label the comment asks for, "" for none
commandOf(cbody) ==
  IF MatchString(releaseNoteRe, cbody) THEN releaseNote
  ELSE IF MatchString(releaseNoteNoneRe, cbody) THEN releaseNoteNone
  ELSE IF MatchString(releaseNoteActionRequiredRe, cbody) THEN releaseNoteActionRequired
  ELSE ""

\* the deprecation test without its second disjunct
isDeprecatedCommand_noteOnly(nl) == nl = releaseNote

\* the commands answered with the deprecation notice
isDeprecatedCommand(nl) == nl = releaseNote \/ nl = releaseNoteActionRequired

\* the authorization test open to everyone
mayAddLabel_anyone(isMember, isAuthor) == TRUE

\* who may set release-note-none
mayAddLabel(isMember, isAuthor) == isMember \/ isAuthor

\* the block test without its second disjunct
blockForbidsNone_noteOnly(blockNL) == blockNL = releaseNote

\* the block labels that forbid /release-note-none
blockForbidsNone(blockNL) == blockNL = releaseNote \/ blockNL = releaseNoteActionRequired

\* applyNone without the test that guards AddLabel
applyNone_alwaysAdds(x, ic) ==
  LET x1 == AddLabel(x, releaseNoteNone)
  IN  IF ~LastOk(x1) THEN Return(x1, TRUE, "add-failed")
      ELSE LET r == removeOtherLabels(x1, releaseNoteNone, allRNLabels, ic.issueLabels)
           IN  Return(r.x, r.err, "applied")

\* handleComment from the AddLabel on
applyNone(x, ic) ==
  LET x1 == IF ~hasLabel(releaseNoteNone, ic.issueLabels)
            THEN AddLabel(x, releaseNoteNone) ELSE x
  IN  IF x1 # x /\ ~LastOk(x1) THEN Return(x1, TRUE, "add-failed")
      ELSE LET r == removeOtherLabels(x1, releaseNoteNone, allRNLabels, ic.issueLabels)
           IN  Return(r.x, r.err, "applied")

\* handleComment from the membership check on
noneCommand(x, ic) ==
  LET x1 == IsMember(x, ic.user)
      isMember == ic.user \in Members
      isAuthor == ic.user = Author
  IN  IF ~LastOk(x1) THEN Return(x1, TRUE, "member-failed")
      ELSE IF ~mayAddLabel(isMember, isAuthor)
      THEN LET x2 == CreateComment(x1, FormatICResponse(ic, notAuthorizedResp))
           IN  Return(x2, ~LastOk(x2), "not-authorized")
      ELSE IF blockForbidsNone(determineReleaseNoteLabel(ic.issueBody))
      THEN LET x2 == CreateComment(x1, FormatICResponse(ic, blockNotEmptyResp))
           IN  Return(x2, ~LastOk(x2), "block-not-empty")
      ELSE applyNone(x1, ic)

handleComment(x, ic) ==
  IF ~ic.isPR \/ ic.action # "created" THEN Return(x, FALSE, "ignored")
  ELSE LET nl == commandOf(ic.body)
       IN  IF nl = "" THEN Return(x, FALSE, "no-command")
           ELSE IF isDeprecatedCommand(nl)
           THEN LET x1 == CreateComment(x, FormatICResponse(ic, deprecatedCommandResp))
                IN  Return(x1, ~LastOk(x1), "deprecated")
           ELSE noneCommand(x, ic)

(***************************************************************************)
(* The pull-request path.                                                  *)
(*                                                                         *)
(* A pull-request event pr is [action, body, base]; its author is Author.  *)
(***************************************************************************)
\* "#" + strconv.Itoa(parent)
ParentRef(parent) == CASE parent = 1 -> "#1" [] parent = 2 -> "#2"

RECURSIVE Join(_, _)
\* strings.Join
Join(elems, sep) ==
  IF Len(elems) = 0 THEN <<>>
  ELSE IF Len(elems) = 1 THEN <<elems[1]>>
  ELSE <<elems[1], sep>> \o Join(Tail(elems), sep)

\* the parent test without its second conjunct
isNoteless_noteOnly(parentLabelSet) == ~hasLabel(releaseNote, parentLabelSet)

\* whether a fetched parent lacks a release note
isNoteless(parentLabelSet) ==
  /\ ~hasLabel(releaseNote, parentLabelSet)
  /\ ~hasLabel(releaseNoteActionRequired, parentLabelSet)

RECURSIVE checkParents(_, _, _)
\* the loop of prMustFollowRelNoteProcess from parents[i] on:
\* [x, notelessParents]
checkParents(x, parents, i) ==
  IF i > Len(parents) THEN [x |-> x, notelessParents |-> <<>>]
  ELSE LET x1 == GetIssueLabels(x, parents[i])
           rest == checkParents(x1, parents, i + 1)
       IN  IF ~LastOk(x1) THEN rest
           ELSE IF isNoteless(IssueLabelsOf(x1, parents[i]))
           THEN [rest EXCEPT !.notelessParents = <<ParentRef(parents[i])>> \o @]
           ELSE rest

parentAdvisory(notelessParents) ==
  FormatResponse(Author, parentReleaseNoteBody,
                 <<"The following parent PRs have neither label: ">>
                   \o Join(notelessParents, ", ") \o <<".">>)

\* the advisory test without the look at the needed label
postsParentAdvisory_unguarded(comment, prLabels) == comment

\* whether prMustFollowRelNoteProcess posts the advisory
postsParentAdvisory(comment, prLabels) ==
  comment /\ ~hasLabel(releaseNoteLabelNeeded, prLabels)

\* [x, must]
prMustFollowRelNoteProcess(x, pr, prLabels, comment) ==
  IF pr.base = "master" THEN [x |-> x, must |-> TRUE]
  ELSE LET parents == getCherrypickParentPRNums(pr.body)
       IN  IF Len(parents) = 0 THEN [x |-> x, must |-> TRUE]
           ELSE LET c == checkParents(x, parents, 1)
                IN  IF Len(c.notelessParents) = 0 THEN [x |-> c.x, must |-> FALSE]
                    ELSE IF postsParentAdvisory(comment, prLabels)
                    THEN [x |-> CreateComment(c.x, parentAdvisory(c.notelessParents)),
                          must |-> TRUE]
                    ELSE [x |-> c.x, must |-> TRUE]

\* ensureNoRelNoteNeededLabel without its second test
ensureNoRelNoteNeededLabel_neededOnly(x, prLabels) ==
  IF hasLabel(releaseNoteLabelNeeded, prLabels)
  THEN RemoveLabel(x, releaseNoteLabelNeeded) ELSE x

ensureNoRelNoteNeededLabel(x, prLabels) ==
  LET x1 == IF hasLabel(releaseNoteLabelNeeded, prLabels)
            THEN RemoveLabel(x, releaseNoteLabelNeeded) ELSE x
  IN  IF hasLabel(deprecatedReleaseNoteLabelNeeded, prLabels)
      THEN RemoveLabel(x1, deprecatedReleaseNoteLabelNeeded) ELSE x1

\* the isStale function handed to DeleteStaleComments
ContainsToken(cbody, tok) == \E i \in 1..Len(cbody) : Contains(cbody[i], <<tok>>)

\* isStale without the test of the comment's author
isStale_anyAuthor(c, bot) ==
  \/ ContainsToken(c.body, releaseNoteBody)
  \/ ContainsToken(c.body, parentReleaseNoteBody)
  \/ ContainsToken(c.body, deprecatedReleaseNoteBody)

isStale(c, bot) ==
  /\ c.user = bot
  /\ \/ ContainsToken(c.body, releaseNoteBody)
     \/ ContainsToken(c.body, parentReleaseNoteBody)
     \/ ContainsToken(c.body, deprecatedReleaseNoteBody)

\* whether clearStaleComments leaves the comments alone
keepsComments(must, prLabels) == must /\ ~releaseNoteAlreadyAdded(prLabels)

\* clearStaleComments going on after a failed fetch of the bot name
clearStaleComments_ignoresBotNameError(x, pr, prLabels, fetched, path) ==
  LET m == prMustFollowRelNoteProcess(x, pr, prLabels, FALSE)
  IN  IF keepsComments(m.must, prLabels) THEN Return(m.x, FALSE, path)
      ELSE LET x1 == BotName(m.x)
               stale == {c \in Range(x1.comments) : isStale(c, botName)}
               x2 == DeleteStaleComments(x1, fetched, stale)
           IN  Return(x2, ~LastOk(x2), path)

\* [x, err, path]; fetched is [nil, list]
clearStaleComments(x, pr, prLabels, fetched, path) ==
  LET m == prMustFollowRelNoteProcess(x, pr, prLabels, FALSE)
  IN  IF keepsComments(m.must, prLabels) THEN Return(m.x, FALSE, path)
      ELSE LET x1 == BotName(m.x)
           IN  IF ~LastOk(x1) THEN Return(x1, TRUE, path)
               ELSE LET stale == {c \in Range(x1.comments) : isStale(c, botName)}
                        x2 == DeleteStaleComments(x1, fetched, stale)
                    IN  Return(x2, ~LastOk(x2), path)

neededAdvisory == FormatResponse(Author, releaseNoteBody, <<releaseNoteSuffix>>)

\* the exemption evaluation with commenting disabled
exemptionCheckComments_off == FALSE

\* whether the lineage evaluation that decides exemption may comment
exemptionCheckComments == TRUE

\* applyLabel returning the error of a failed post of the needed advisory
applyLabel_abortsOnPostFailure(x, pr, prLabels, labelToAdd, fetched) ==
  LET x1 == IF labelToAdd = releaseNoteLabelNeeded
            THEN IF ~hasLabel(releaseNoteLabelNeeded, prLabels)
                 THEN CreateComment(x, neededAdvisory) ELSE x
            ELSE ensureNoRelNoteNeededLabel(x, prLabels)
      posted == labelToAdd = releaseNoteLabelNeeded /\ x1 # x
      x2 == IF ~hasLabel(labelToAdd, prLabels) THEN AddLabel(x1, labelToAdd) ELSE x1
  IN  IF posted /\ ~LastOk(x1) THEN Return(x1, TRUE, "add-failed")
      ELSE IF x2 # x1 /\ ~LastOk(x2) THEN Return(x2, TRUE, "add-failed")
      ELSE LET r == removeOtherLabels(x2, labelToAdd, allRNLabels, prLabels)
           IN  clearStaleComments(r.x, pr, prLabels, fetched, "applied")

\* handlePR from the second test of labelToAdd on
applyLabel(x, pr, prLabels, labelToAdd, fetched) ==
  LET x1 == IF labelToAdd = releaseNoteLabelNeeded
            THEN IF ~hasLabel(releaseNoteLabelNeeded, prLabels)
                 THEN CreateComment(x, neededAdvisory) ELSE x
            ELSE ensureNoRelNoteNeededLabel(x, prLabels)
      x2 == IF ~hasLabel(labelToAdd, prLabels) THEN AddLabel(x1, labelToAdd) ELSE x1
  IN  IF x2 # x1 /\ ~LastOk(x2) THEN Return(x2, TRUE, "add-failed")
      ELSE LET r == removeOtherLabels(x2, labelToAdd, allRNLabels, prLabels)
           IN  clearStaleComments(r.x, pr, prLabels, fetched, "applied")

\* neededLabel without the look at the comments' none-commands
neededLabel_noOverride(x, pr, prLabels) ==
  LET m == prMustFollowRelNoteProcess(x, pr, prLabels, exemptionCheckComments)
  IN  IF ~m.must
      THEN clearStaleComments(ensureNoRelNoteNeededLabel(m.x, prLabels), pr, prLabels,
                              [nil |-> TRUE, list |-> <<>>], "exempt")
      ELSE LET x1 == ListIssueComments(m.x)
           IN  IF ~LastOk(x1) THEN Return(x1, TRUE, "comments-failed")
               ELSE applyLabel(x1, pr, prLabels, releaseNoteLabelNeeded,
                               [nil |-> FALSE, list |-> x1.comments])

\* handlePR for a body whose block is empty
neededLabel(x, pr, prLabels) ==
  LET m == prMustFollowRelNoteProcess(x, pr, prLabels, exemptionCheckComments)
  IN  IF ~m.must
      THEN clearStaleComments(ensureNoRelNoteNeededLabel(m.x, prLabels), pr, prLabels,
                              [nil |-> TRUE, list |-> <<>>], "exempt")
      ELSE LET x1 == ListIssueComments(m.x)
           IN  IF ~LastOk(x1) THEN Return(x1, TRUE, "comments-failed")
               ELSE applyLabel(x1, pr, prLabels,
                               IF containsNoneCommand(x1.comments)
                               THEN releaseNoteNone ELSE releaseNoteLabelNeeded,
                               [nil |-> FALSE, list |-> x1.comments])

handlePR(x, pr) ==
  IF pr.action # "opened" /\ pr.action # "edited" THEN Return(x, FALSE, "ignored")
  ELSE LET x1 == GetIssueLabels(x, Repo.pr)
           prLabels == IssueLabelsOf(x1, Repo.pr)
           labelToAdd == determineReleaseNoteLabel(pr.body)
       IN  IF ~LastOk(x1) THEN Return(x1, TRUE, "labels-failed")
           ELSE IF labelToAdd = releaseNoteLabelNeeded THEN neededLabel(x1, pr, prLabels)
           ELSE applyLabel(x1, pr, prLabels, labelToAdd, [nil |-> TRUE, list |-> <<>>])

(***************************************************************************)
(* The state machine: one PR on the tracker, events handled one at a time. *)
(*                                                                         *)
(* run records the invocation in progress or just finished: the handler,   *)
(* the event, the calls it issued, its result, and the labels and comments *)
(* it found.                                                               *)
(***************************************************************************)
FamilyLabels == Range(allRNLabels)

\* the contents of the PR body's release-note blocks
BlockMenu ==
  { <<>>, << <<"NONE">> >>, << <<"fix", " ", "Action", " ", "required">> >>,
    << <<" ", "fix">> >> }

cp1 == "Cherry pick of #1 on release-1.4."
cp2 == "Cherry pick of #2 on release-1.4."
cpHuge == "Cherry pick of #99999999999999999999 on release-1.4."

\* the lines of the PR body
LineMenu ==
  { <<>>, <<cp1>>, <<cp2>>, <<cp1, cp2>>, <<cp2, cp1>>, <<cp1, cp1>>,
    <<"Fixes a bug.", cp2>>, <<cpHuge>> }

Bodies == [blocks : BlockMenu, lines : LineMenu]

Bases == {"master", "release-1.4"}

ParentLabelSets == {{}, {releaseNote}, {"Release-Note-Action-Required"}}

UserComment(user, cbody) == [user |-> user, body |-> cbody]

NoneCommandBody == << <<"/release-note", "-none">> >>

\* the comments the PR may already carry
CommentHistories == { <<>>, <<UserComment(Author, NoneCommandBody)>> }

PRActions == {"opened", "edited", "closed"}

NoEvent ==
  [isPR |-> FALSE, action |-> "", user |-> "", body |-> <<>>, mayComment |-> FALSE]

NoRun ==
  [handler |-> "none", ev |-> NoEvent, calls |-> <<>>, err |-> FALSE, path |-> "",
   before |-> {}, found |-> <<>>, rerun |-> FALSE]

Context(fails) ==
  [labels |-> labels, comments |-> comments, parentLabels |-> parentLabels,
   calls |-> <<>>, fails |-> fails]

\* one invocation of a handler on an event, with the calls at fails failing
Invoke(handler, ev, fails) ==
  CASE handler = "pr" -> handlePR(Context(fails), ev)
    [] handler = "comment" -> handleComment(Context(fails), ev)
    [] handler = "lineage" ->
         LET m == prMustFollowRelNoteProcess(Context(fails), ev, labels, ev.mayComment)
         IN  Return(m.x, FALSE, IF m.must THEN "must" ELSE "exempt")

RECURSIVE ReachedFails(_, _, _, _)
\* fails, and every way to let up to k later calls that the invocation reaches
\* fail as well
ReachedFails(handler, ev, fails, k) ==
  LET n == Len(Invoke(handler, ev, fails).x.calls)
      lo == IF fails = {} THEN 1 ELSE 1 + CHOOSE p \in fails : \A q \in fails : q <= p
  IN  {fails} \cup
      (IF k = 0 THEN {}
       ELSE UNION {ReachedFails(handler, ev, fails \cup {p}, k - 1) : p \in lo..n})

\* the sets of failing call positions of an invocation: at most MaxFails calls
FailSets(handler, ev) == ReachedFails(handler, ev, {}, MaxFails)

AllOk(calls) == \A i \in 1..Len(calls) : calls[i].ok

TypeOK ==
  /\ labels \subseteq FamilyLabels
  /\ body \in Bodies
  /\ base \in Bases
  /\ parentLabels \in [Repo.parents -> ParentLabelSets]
  /\ Len(comments) <= MaxComments
  /\ run.handler \in {"none", "comment", "pr", "lineage", "label"}

\* any tracker state within the menus; PRs that the body does not name as
\* parents, and every PR when the base is master, have no labels
Init ==
  /\ labels \in SUBSET FamilyLabels
  /\ body \in Bodies
  /\ base \in Bases
  /\ parentLabels \in [Repo.parents -> ParentLabelSets]
  /\ \A n \in Repo.parents :
       (base = "master" \/ n \notin Range(getCherrypickParentPRNums(body)))
         => parentLabels[n] = {}
  /\ comments \in CommentHistories
  /\ run = NoRun

\* the tracker and the run record after an invocation that returned r
Finish(handler, ev, r, rerun) ==
  /\ Len(r.x.comments) <= MaxComments
  /\ labels' = r.x.labels
  /\ comments' = r.x.comments
  /\ run' = [handler |-> handler, ev |-> ev, calls |-> r.x.calls, err |-> r.err,
             path |-> r.path, before |-> labels, found |-> comments, rerun |-> rerun]
  /\ UNCHANGED <<body, base, parentLabels>>

PREvent(action) == [NoEvent EXCEPT !.isPR = TRUE, !.action = action, !.user = Author]

\* a pull-request event is delivered: handlePullRequest
HandlePullRequest ==
  /\ run.handler = "none"
  /\ \E action \in PRActions :
       LET pr == [action |-> action, body |-> body, base |-> base]
       IN  \E fails \in FailSets("pr", pr) :
             LET r == Invoke("pr", pr, fails)
             IN  Finish("pr", PREvent(action), r, FALSE)

\* the event of a run that completed with every call succeeding is delivered
\* again, and handled with every call succeeding
Redeliver ==
  /\ run.handler = "pr" /\ ~run.rerun
  /\ run.ev.action \in {"opened", "edited"}
  /\ ~run.err /\ AllOk(run.calls)
  /\ LET r == Invoke("pr", [action |-> run.ev.action, body |-> body, base |-> base], {})
     IN  Finish("pr", run.ev, r, TRUE)

Next == HandlePullRequest \/ Redeliver

Spec == Init /\ [][Next]_vars

(***************************************************************************)
(* The comment path alone: one issue-comment event against a PR whose      *)
(* base is master.  The comment is on the tracker when the event arrives.  *)
(***************************************************************************)
noneLine == <<"/release-note", "-none">>
noteLine == <<"/release-note">>
actionLine == <<"/release-note", "-action-required">>

\* the comment bodies of the events
CommentBodies ==
  { <<noneLine>>, <<noteLine>>, <<actionLine>>,
    <<noteLine, noneLine>>, <<noneLine, noteLine>>,
    <<noneLine, actionLine>>, <<actionLine, noneLine>>,
    << <<"/RELEASE-NOTE", "-NONE", " ">> >>,
    << <<" ", "/release-note", "-none">> >>,
    << <<"/release-note", "-none", "please">> >>,
    << <<"thanks">>, noneLine >>,
    << <<"thanks">> >> }

\* whether the issue is a PR, and the action of the event
CommentEventKinds ==
  { [isPR |-> TRUE, action |-> "created"], [isPR |-> TRUE, action |-> "edited"],
    [isPR |-> FALSE, action |-> "created"] }

InitComment ==
  /\ labels \in SUBSET FamilyLabels
  /\ body \in [blocks : BlockMenu, lines : {<<>>}]
  /\ base = "master"
  /\ parentLabels = [n \in Repo.parents |-> {}]
  /\ comments = <<>>
  /\ run = NoRun

\* an issue-comment event is delivered: handleIssueComment
HandleIssueComment ==
  /\ run.handler = "none"
  /\ \E kind \in CommentEventKinds, user \in Users, cbody \in CommentBodies :
       LET ev == [NoEvent EXCEPT !.isPR = kind.isPR, !.action = kind.action,
                                 !.user = user, !.body = cbody]
           ic == [isPR |-> kind.isPR, action |-> kind.action, user |-> user,
                  body |-> cbody, issueBody |-> body, issueLabels |-> labels]
           posted == IF kind.isPR /\ kind.action = "created"
                     THEN Append(comments, UserComment(user, cbody)) ELSE comments
       IN  \E fails \in FailSets("comment", ic) :
             LET r == handleComment([Context(fails) EXCEPT !.comments = posted], ic)
             IN  Finish("comment", ev, r, FALSE)

NextComment == HandleIssueComment

SpecComment == InitComment /\ [][NextComment]_vars

(***************************************************************************)
(* Either path, once, against a PR on master without comments.             *)
(***************************************************************************)
NextRemoval == HandlePullRequest \/ HandleIssueComment

SpecRemoval == InitComment /\ [][NextRemoval]_vars

(***************************************************************************)
(* The lineage policy alone: prMustFollowRelNoteProcess applied to the PR  *)
(* and its fetched labels, with and without leave to comment.              *)
(***************************************************************************)
EvaluateLineage ==
  /\ run.handler = "none"
  /\ \E mayComment \in BOOLEAN :
       LET pr == [body |-> body, base |-> base, mayComment |-> mayComment]
       IN  \E fails \in FailSets("lineage", pr) :
             LET r == Invoke("lineage", pr, fails)
             IN  Finish("lineage", [NoEvent EXCEPT !.isPR = TRUE, !.mayComment = mayComment],
                        r, FALSE)

NextLineage == EvaluateLineage

SpecLineage == Init /\ [][NextLineage]_vars

(***************************************************************************)
(* The classification of the body alone: determineReleaseNoteLabel applied *)
(* to a body whose first release-note block is any token text.             *)
(***************************************************************************)
NoteTokens == {" ", "\n", "none", "NONE", "action", "Action", "required", "Required", "fix"}

\* the contents a release-note block can have: noteMatcherRE needs one character
Notes == UNION {[1..n -> NoteTokens] : n \in 1..MaxNote}

InitLabel ==
  /\ labels = {}
  /\ body \in [blocks : {<<>>} \cup {<<n>> : n \in Notes}
                         \cup {<<n, <<"none">> >> : n \in [1..1 -> NoteTokens]},
                lines : {<<>>}]
  /\ base = "master"
  /\ parentLabels = [n \in Repo.parents |-> {}]
  /\ comments = <<>>
  /\ run = NoRun

\* the body is classified; the label is recorded as the path of the run
DetermineReleaseNoteLabel ==
  /\ run.handler = "none"
  /\ run' = [NoRun EXCEPT !.handler = "label", !.path = determineReleaseNoteLabel(body)]
  /\ UNCHANGED <<labels, body, base, parentLabels, comments>>

NextLabel == DetermineReleaseNoteLabel

SpecLabel == InitLabel /\ [][NextLabel]_vars

(***************************************************************************)
(* The stale-comment cleanup: one pull-request event against a PR on       *)
(* master that already carries comments of the bot and of its author.      *)
(***************************************************************************)
BotComment(cbody) == [user |-> botName, body |-> cbody]

\* the comments a PR may carry: the advisories and replies of the plugin, the
\* needed advisory of the time of the deprecated label, and comments of the author
StaleMenu ==
  { BotComment(neededAdvisory),
    BotComment(FormatResponse(Author, deprecatedReleaseNoteBody, <<releaseNoteSuffix>>)),
    BotComment(parentAdvisory(<<"#1">>)),
    BotComment(FormatICResponse(UserComment(Author, <<noteLine>>), deprecatedCommandResp)),
    BotComment(FormatICResponse(UserComment("outsider", <<noneLine>>), notAuthorizedResp)),
    UserComment(Author, neededAdvisory),
    UserComment(Author, <<noneLine>>),
    UserComment(Author, << <<"thanks">> >>) }

InitStale ==
  /\ labels \in {{}, {releaseNote}, {releaseNoteNone}, {releaseNoteLabelNeeded, releaseNote}}
  /\ body \in [blocks : BlockMenu, lines : {<<>>}]
  /\ base = "master"
  /\ parentLabels = [n \in Repo.parents |-> {}]
  /\ comments \in UNION {[1..n -> StaleMenu] : n \in 0..2}
  /\ run = NoRun

NextStale == HandlePullRequest

SpecStale == InitStale /\ [][NextStale]_vars

(***************************************************************************)
(* The life of one PR on master: pull-request events, which carry the body *)
(* the PR has after the edit, and comments with commands of the author and *)
(* of a user who is neither the author nor a member, in any order.  Every  *)
(* call of these runs succeeds; the label sets that a run with failing     *)
(* calls can leave are among the initial ones.                             *)
(***************************************************************************)
LifeUsers == {Author, "outsider"}

LifeCommentBodies == { <<noneLine>>, <<noteLine>> }

LifeBodies == [blocks : BlockMenu, lines : {<<>>}]

InitLife ==
  /\ labels \in SUBSET FamilyLabels
  /\ body \in LifeBodies
  /\ base = "master"
  /\ parentLabels = [n \in Repo.parents |-> {}]
  /\ comments = <<>>
  /\ run = NoRun

\* the PR is opened, edited to a new body, or closed, and the event is handled
LifePullRequest ==
  /\ Len(comments) <= MaxComments
  /\ \E action \in PRActions, b \in LifeBodies :
       /\ action # "edited" => b = body
       /\ LET pr == [action |-> action, body |-> b, base |-> base]
              r == Invoke("pr", pr, {})
          IN  /\ Len(r.x.comments) <= MaxComments
              /\ labels' = r.x.labels
              /\ comments' = r.x.comments
              /\ body' = b
              /\ run' = [handler |-> "pr", ev |-> PREvent(action), calls |-> r.x.calls,
                         err |-> r.err, path |-> r.path, before |-> labels,
                         found |-> comments, rerun |-> FALSE]
  /\ UNCHANGED <<base, parentLabels>>

\* a user comments on the PR and the event is handled
LifeComment ==
  /\ Len(comments) < MaxComments
  /\ \E user \in LifeUsers, cbody \in LifeCommentBodies :
       LET ev == [NoEvent EXCEPT !.isPR = TRUE, !.action = "created",
                                 !.user = user, !.body = cbody]
           ic == [isPR |-> TRUE, action |-> "created", user |-> user,
                  body |-> cbody, issueBody |-> body, issueLabels |-> labels]
           posted == Append(comments, UserComment(user, cbody))
           r == handleComment([Context({}) EXCEPT !.comments = posted], ic)
       IN  Finish("comment", ev, r, FALSE)

NextLife == LifePullRequest \/ LifeComment

SpecLife == InitLife /\ [][NextLife]_vars

(***************************************************************************)
(* Properties.  They read the run record: the calls of the invocation, the *)
(* labels it found (run.before) and the tracker it left.                   *)
(***************************************************************************)
CallsOf(op) == {i \in 1..Len(run.calls) : run.calls[i].op = op}

LabelCalls == CallsOf("AddLabel") \cup CallsOf("RemoveLabel")

\* the labels that stand for a release-note status
StatusLabels ==
  {releaseNote, releaseNoteNone, releaseNoteActionRequired, releaseNoteLabelNeeded}

\* a handlePR invocation on an opened or edited event
RanPR == run.handler = "pr" /\ run.path # "ignored"

\* whether a label set holds neither note label, whatever the case of its names
LacksNote(ls) ==
  \A l \in ls : ToLower(l) \notin {"release-note", "release-note-action-required"}

\* whether a call posts a comment that carries a template
Posts(call, template) ==
  /\ call.op = "CreateComment"
  /\ \E i \in 1..Len(call.body) : template \in Range(call.body[i])

PostsOf(template) == {i \in 1..Len(run.calls) : Posts(run.calls[i], template)}

C2_Idempotent ==
  run.rerun => LabelCalls \cup CallsOf("CreateComment") = {}

\* C10 as stated: the lineage evaluation with which handlePR decides exemption
\* (its calls come first after the fetch of the PR's labels) never posts the
\* cherry-pick-parent advisory.
C10_AsStated ==
  RanPR =>
    ~\E i \in PostsOf(parentReleaseNoteBody) :
        \A j \in 1..(i - 1) : run.calls[j].op = "GetIssueLabels"

\* C10, amended: when the body classifies as Needed, the lineage evaluation
\* that decides exemption runs with commenting enabled: it posts the
\* cherry-pick-parent advisory, once and right after fetching the parents'
\* labels, exactly when a parent fetched successfully has no note label and
\* the needed label is not among the PR's fetched labels.  The evaluation in
\* the stale-comment cleanup posts none, so handlePR posts no other one.
C10_ExemptionEvaluationComments ==
  (RanPR /\ run.path # "labels-failed") =>
    LET parents == getCherrypickParentPRNums(body)
        found == \E i \in 1..Len(parents) :
                   run.calls[1 + i].ok /\ LacksNote(parentLabels[parents[i]])
        expected == /\ determineReleaseNoteLabel(body) = releaseNoteLabelNeeded
                    /\ base # "master"
                    /\ found
                    /\ releaseNoteLabelNeeded \notin run.before
    IN  PostsOf(parentReleaseNoteBody) = IF expected THEN {2 + Len(parents)} ELSE {}

C10_Witness ==
  /\ RanPR /\ run.path = "applied"
  /\ PostsOf(parentReleaseNoteBody) # {}
  /\ CallsOf("DeleteStaleComments") # {}

\* a handleComment invocation on a comment created on the PR
RanComment == run.handler = "comment" /\ run.ev.isPR /\ run.ev.action = "created"

\* whether some line of the comment is the command, up to case and trailing space
HasCommand(cbody, command) ==
  \E i \in 1..Len(cbody) :
    LET solid == SelectWhere(cbody[i], {j \in 1..Len(cbody[i]) : cbody[i][j] # " "})
    IN  /\ ToLowerText(solid) = command
        /\ \A j \in 1..Len(solid) : cbody[i][j] = solid[j]

\* the comment is a none-command: a /release-note-none line and no /release-note line
NoneCommanded ==
  /\ RanComment
  /\ HasCommand(run.ev.body, <<"/release-note", "-none">>)
  /\ ~HasCommand(run.ev.body, <<"/release-note">>)

\* the comment is a deprecated command
DeprecatedCommanded ==
  /\ RanComment
  /\ \/ HasCommand(run.ev.body, <<"/release-note">>)
     \/ /\ HasCommand(run.ev.body, <<"/release-note", "-action-required">>)
        /\ ~HasCommand(run.ev.body, <<"/release-note", "-none">>)

\* the membership lookup was made and answered
MembershipKnown == Len(run.calls) >= 1 /\ run.calls[1].op = "IsMember" /\ run.calls[1].ok

Authorized == run.ev.user = Author \/ run.ev.user \in Members

\* the class of the release-note block of the PR body
BlockClass == determineReleaseNoteLabel(body)

\* C3: a none-command whose commenter the membership lookup finds to be no
\* member, and who is not the author, gets exactly one rejection comment; no
\* AddLabel and no RemoveLabel call is issued and the labels stay as they were.
C3_UnauthorizedNone ==
  (NoneCommanded /\ MembershipKnown /\ ~Authorized) =>
    /\ Cardinality(CallsOf("CreateComment")) = 1
    /\ PostsOf(notAuthorizedResp) = CallsOf("CreateComment")
    /\ LabelCalls = {}
    /\ labels = run.before

C3_Witness ==
  /\ NoneCommanded /\ MembershipKnown /\ ~Authorized
  /\ run.before # {} /\ releaseNoteNone \notin run.before
  /\ PostsOf(notAuthorizedResp) # {}

\* C4: a none-command of the author or a member, on a PR whose block
\* classifies as Needed or None, with every call succeeding, leaves
\* release-note-none as the only family label: AddLabel is called (once, for
\* release-note-none) iff the label was absent, and RemoveLabel is called once
\* for each other family label that was present, both spellings of the needed
\* label included.
C4_AuthorizedNone ==
  (NoneCommanded /\ Authorized /\ AllOk(run.calls)
     /\ BlockClass \in {releaseNoteLabelNeeded, releaseNoteNone}) =>
    /\ labels \cap FamilyLabels = {releaseNoteNone}
    /\ Cardinality(CallsOf("AddLabel")) = IF releaseNoteNone \in run.before THEN 0 ELSE 1
    /\ \A i \in CallsOf("AddLabel") : run.calls[i].label = releaseNoteNone
    /\ {run.calls[i].label : i \in CallsOf("RemoveLabel")}
         = (run.before \cap FamilyLabels) \ {releaseNoteNone}
    /\ Cardinality(CallsOf("RemoveLabel"))
         = Cardinality((run.before \cap FamilyLabels) \ {releaseNoteNone})

C4_Witness ==
  /\ NoneCommanded /\ Authorized /\ AllOk(run.calls)
  /\ BlockClass = releaseNoteLabelNeeded
  /\ {releaseNoteLabelNeeded, deprecatedReleaseNoteLabelNeeded, releaseNote} \subseteq run.before
  /\ releaseNoteNone \notin run.before
  /\ labels = {releaseNoteNone}

\* C5: a none-command of the author or a member (the membership lookup having
\* answered), on a PR whose block classifies as Standard or ActionRequired,
\* gets exactly one explanatory comment; no AddLabel and no RemoveLabel call is
\* issued and the labels stay as they were.
C5_BlockNotEmpty ==
  (NoneCommanded /\ MembershipKnown /\ Authorized
     /\ BlockClass \in {releaseNote, releaseNoteActionRequired}) =>
    /\ Cardinality(CallsOf("CreateComment")) = 1
    /\ PostsOf(blockNotEmptyResp) = CallsOf("CreateComment")
    /\ LabelCalls = {}
    /\ labels = run.before

C5_Witness ==
  /\ NoneCommanded /\ MembershipKnown /\ run.ev.user = Author
  /\ BlockClass = releaseNoteActionRequired
  /\ PostsOf(blockNotEmptyResp) # {}

\* C6: a deprecated command (/release-note or /release-note-action-required)
\* makes handleComment issue one call, the post of the deprecation notice:
\* no AddLabel, no RemoveLabel, no IsMember, whoever comments and whatever
\* the labels are, which stay as they were.
C6_DeprecatedCommand ==
  DeprecatedCommanded =>
    /\ Len(run.calls) = 1
    /\ PostsOf(deprecatedCommandResp) = {1}
    /\ labels = run.before

C6_Witness ==
  /\ DeprecatedCommanded
  /\ run.ev.body = <<actionLine>>
  /\ run.ev.user = Author
  /\ run.before = {releaseNoteLabelNeeded}
  /\ PostsOf(deprecatedCommandResp) = {1}

\* C7: a comment has one outcome, by the precedence note, none,
\* action-required: with a /release-note line it is answered with the
\* deprecation notice, whatever else it holds; else with a /release-note-none
\* line it is handled as the none-command (the membership lookup comes
\* first), also beside a /release-note-action-required line; else with a
\* /release-note-action-required line it gets the deprecation notice; else
\* nothing is called.
C7_Precedence ==
  RanComment =>
    LET note == HasCommand(run.ev.body, <<"/release-note">>)
        none == HasCommand(run.ev.body, <<"/release-note", "-none">>)
        action == HasCommand(run.ev.body, <<"/release-note", "-action-required">>)
    IN  /\ note => PostsOf(deprecatedCommandResp) = {1} /\ Len(run.calls) = 1
        /\ (~note /\ none) => run.calls[1].op = "IsMember" /\ PostsOf(deprecatedCommandResp) = {}
        /\ (~note /\ ~none /\ action) => PostsOf(deprecatedCommandResp) = {1} /\ Len(run.calls) = 1
        /\ (~note /\ ~none /\ ~action) => run.calls = <<>>

C7_Witness ==
  /\ RanComment
  /\ run.ev.body = <<noneLine, noteLine>>
  /\ run.ev.user = Author
  /\ PostsOf(deprecatedCommandResp) = {1}
  /\ labels = run.before

\* a prMustFollowRelNoteProcess evaluation
RanLineage == run.handler = "lineage"

\* the positions in the parent list of the parents that were fetched and lack a note
NotelessFetched ==
  LET parents == getCherrypickParentPRNums(body)
  IN  {i \in 1..Len(parents) :
        i <= Len(run.calls) /\ run.calls[i].ok /\ LacksNote(parentLabels[parents[i]])}

\* C8: prMustFollowRelNoteProcess returns false exactly when the base is not
\* master, the body yields a parent reference, and no parent whose labels were
\* fetched lacks both note labels (a failed fetch counts for nothing); on
\* master it makes no call, and otherwise it fetches each parent in body order.
C8_MustFollow ==
  RanLineage =>
    LET parents == getCherrypickParentPRNums(body)
    IN  /\ run.path = "exempt" <=>
             (base # "master" /\ Len(parents) > 0 /\ NotelessFetched = {})
        /\ base = "master" => run.calls = <<>>
        /\ base # "master" =>
             \A i \in 1..Len(parents) :
               run.calls[i].op = "GetIssueLabels" /\ run.calls[i].num = parents[i]

C8_Witness ==
  /\ RanLineage /\ run.path = "exempt"
  /\ Len(getCherrypickParentPRNums(body)) = 2
  /\ \E i \in 1..Len(run.calls) : ~run.calls[i].ok
  /\ \E n \in Repo.parents : parentLabels[n] = {"Release-Note-Action-Required"}

\* C9: prMustFollowRelNoteProcess posts the cherry-pick-parent advisory exactly
\* when it found a noteless parent, may comment, and the needed label is not
\* among the PR's labels: then it posts once, naming the noteless parents in
\* body order, and returns true whether or not the post succeeds.  Else (on
\* master, without parent reference, exempt, or without leave to comment) it
\* posts nothing.
C9_ParentAdvisory ==
  RanLineage =>
    LET parents == getCherrypickParentPRNums(body)
        posts == CallsOf("CreateComment")
        due == /\ base # "master"
               /\ NotelessFetched # {}
               /\ run.ev.mayComment
               /\ releaseNoteLabelNeeded \notin run.before
        named(i) == SelectWhere(run.calls[i].body[2],
                                {j \in 1..Len(run.calls[i].body[2]) :
                                   run.calls[i].body[2][j] \in {"#1", "#2"}})
        noteless == SelectWhere(parents, NotelessFetched)
    IN  IF due
        THEN /\ posts = {Len(parents) + 1}
             /\ posts = PostsOf(parentReleaseNoteBody)
             /\ \A i \in posts :
                  named(i) = [k \in 1..Len(noteless) |->
                                IF noteless[k] = 1 THEN "#1" ELSE "#2"]
             /\ run.path = "must"
        ELSE posts = {}

C9_Witness ==
  /\ RanLineage /\ run.path = "must" /\ base # "master"
  /\ getCherrypickParentPRNums(body) = <<2, 1>>
  /\ NotelessFetched = {1, 2}
  /\ \E i \in CallsOf("CreateComment") : ~run.calls[i].ok

\* C11: determineReleaseNoteLabel maps every body to exactly one of the four
\* status labels, never to the deprecated alias, by the first release-note
\* block with the space around it dropped and case ignored: nothing left
\* gives the needed label; the single word none gives release-note-none;
\* "action required" anywhere in it gives release-note-action-required; any
\* other text gives release-note.
C11_Classification ==
  run.handler = "label" =>
    LET note == IF body.blocks = <<>> THEN <<>> ELSE body.blocks[1]
        solid == {i \in 1..Len(note) : note[i] \notin {" ", "\n"}}
        isNone == Cardinality(solid) = 1 /\ \A i \in solid : note[i] \in {"none", "NONE"}
        hasAction == \E i \in 1..(Len(note) - 2) :
                       /\ note[i] \in {"action", "Action"}
                       /\ note[i + 1] = " "
                       /\ note[i + 2] \in {"required", "Required"}
        expected == IF solid = {} THEN releaseNoteLabelNeeded
                    ELSE IF isNone THEN releaseNoteNone
                    ELSE IF hasAction THEN releaseNoteActionRequired
                    ELSE releaseNote
    IN  /\ run.path = expected
        /\ run.path \in StatusLabels
        /\ run.path # deprecatedReleaseNoteLabelNeeded

C11_Witness ==
  /\ run.handler = "label"
  /\ body.blocks = << <<"fix", "Action", " ", "Required">> >>
  /\ run.path = releaseNoteActionRequired

\* whether a comment is the bot's and carries one of the templates
SelectedBy(c, templates) ==
  /\ c.user = botName
  /\ \E i \in 1..Len(c.body) : Range(c.body[i]) \cap templates # {}

\* after a handlePR run whose DeleteStaleComments call succeeded, the PR's
\* comments are those it found and those the run posted, less the comments
\* selected by the templates among the ones the cleanup was given (the
\* comments listed by the run, or all of them when the run listed none)
CleanupLeaves(templates) ==
  (RanPR /\ \E i \in CallsOf("DeleteStaleComments") : run.calls[i].ok) =>
    LET posted == {i \in CallsOf("CreateComment") : run.calls[i].ok}
        created == SelectWhere(run.calls, posted)
        pre == run.found \o [k \in 1..Len(created) |-> [user |-> botName, body |-> created[k].body]]
        listed == CallsOf("ListIssueComments")
        n == IF listed = {} THEN Len(pre)
             ELSE Len(run.found) + Cardinality({i \in posted : \A j \in listed : i < j})
        kept == {i \in 1..Len(pre) : i > n \/ ~SelectedBy(pre[i], templates)}
    IN  comments = SelectWhere(pre, kept)

\* C12 as stated: the cleanup deletes exactly the bot's comments that carry the
\* needed template, the deprecated-command notice or the cherry-pick-parent
\* template.
C12_AsStated ==
  CleanupLeaves({releaseNoteBody, deprecatedCommandResp, parentReleaseNoteBody})

\* C12, amended: the cleanup deletes exactly the bot's comments that carry the
\* needed template, the cherry-pick-parent template, or the needed template
\* rendered with the deprecated label; it deletes no comment of another
\* author and none without such a template, so the deprecation notice of the
\* commands stays.
C12_StaleSelection ==
  CleanupLeaves({releaseNoteBody, parentReleaseNoteBody, deprecatedReleaseNoteBody})

C12_Witness ==
  /\ RanPR /\ \E i \in CallsOf("DeleteStaleComments") : run.calls[i].ok
  /\ run.found = << BotComment(FormatICResponse(UserComment(Author, <<noteLine>>),
                                                 deprecatedCommandResp)),
                    BotComment(FormatResponse(Author, deprecatedReleaseNoteBody,
                                              <<releaseNoteSuffix>>)) >>
  /\ comments = SubSeq(run.found, 1, 1)

\* a handlePR run of the PR's life on an opened or edited event
RanLifePR == run.handler = "pr" /\ run.ev.action \in {"opened", "edited"}

\* whether a comment the run found on the PR holds a /release-note-none line
NoneLeft ==
  \E i \in 1..Len(run.found) : HasCommand(run.found[i].body, <<"/release-note", "-none">>)

\* C13 as stated: a PR labelled release-note-none whose body is edited to an
\* empty release-note block is left with the needed label by the run that
\* handles the edit.
C13_AsStated ==
  (RanLifePR /\ run.ev.action = "edited" /\ releaseNoteNone \in run.before
     /\ determineReleaseNoteLabel(body) = releaseNoteLabelNeeded) =>
    labels \cap StatusLabels = {releaseNoteLabelNeeded}

\* C13, amended: whatever labels the PR carries and whatever events came
\* before, the run that handles an edit leaves exactly the status label of the
\* new body's block (so None, Standard and ActionRequired are reached from
\* every state), except that an empty block gives release-note-none, not the
\* needed label, once a comment on the PR holds a /release-note-none line.
C13_EditDecidesLabel ==
  RanLifePR =>
    LET class == determineReleaseNoteLabel(body)
        expected == IF class = releaseNoteLabelNeeded /\ NoneLeft
                    THEN releaseNoteNone ELSE class
    IN  labels \cap FamilyLabels = {expected}

C13_Witness ==
  /\ RanLifePR /\ run.ev.action = "edited"
  /\ run.before = {releaseNoteNone}
  /\ Len(run.found) > 0
  /\ labels = {releaseNoteLabelNeeded}

\* the label a handlePR run settles on: the class of the body's block, and
\* release-note-none for an empty block when a comment holds a none-command
FinalTarget ==
  LET class == determineReleaseNoteLabel(body)
  IN  IF class = releaseNoteLabelNeeded /\ NoneLeft THEN releaseNoteNone ELSE class

\* a handlePR run that got as far as applying a label
AppliesLabel == RanPR /\ run.path \in {"applied", "add-failed"}

\* the labels of the RemoveLabel calls of the run
Removed == {run.calls[i].label : i \in CallsOf("RemoveLabel")}

\* C14: when the final target of a handlePR run is the needed label, the run
\* posts the needed advisory iff the needed label is not among the fetched
\* labels, and whether or not the post succeeds the next call adds the needed
\* label (no AddLabel when it was fetched); unless that AddLabel fails, a
\* RemoveLabel is issued for each other family label fetched.  When the final
\* target is another label, no needed advisory is posted.
C14_NeededAdvisory ==
  AppliesLabel =>
    LET posts == PostsOf(releaseNoteBody)
        adds == CallsOf("AddLabel")
        had == releaseNoteLabelNeeded \in run.before
    IN  IF FinalTarget = releaseNoteLabelNeeded
        THEN /\ Cardinality(posts) = IF had THEN 0 ELSE 1
             /\ adds = IF had THEN {} ELSE {p + 1 : p \in posts}
             /\ \A i \in adds : run.calls[i].label = releaseNoteLabelNeeded
             /\ (\A i \in adds : run.calls[i].ok) =>
                  Removed = (run.before \cap FamilyLabels) \ {releaseNoteLabelNeeded}
        ELSE posts = {}

C14_Witness ==
  /\ AppliesLabel /\ FinalTarget = releaseNoteLabelNeeded
  /\ \E p \in PostsOf(releaseNoteBody) : ~run.calls[p].ok
  /\ run.before = {releaseNote, deprecatedReleaseNoteLabelNeeded}
  /\ labels = {releaseNoteLabelNeeded}

\* C15: a handlePR run that finds the PR exempt issues no AddLabel call and
\* lists no comments; it issues one RemoveLabel for the needed label and one
\* for its deprecated alias, each iff it was among the fetched labels, so
\* every other label stays; then the cleanup evaluates the lineage again
\* (the parents are fetched a second time) and, every call succeeding,
\* fetches the bot name and calls DeleteStaleComments.
C15_ExemptBranch ==
  (RanPR /\ run.path = "exempt") =>
    LET needed == {releaseNoteLabelNeeded, deprecatedReleaseNoteLabelNeeded}
    IN  /\ CallsOf("AddLabel") = {}
        /\ CallsOf("ListIssueComments") = {}
        /\ Removed = run.before \cap needed
        /\ Cardinality(CallsOf("RemoveLabel")) = Cardinality(run.before \cap needed)
        /\ labels \ needed = run.before \ needed
        /\ Cardinality(CallsOf("GetIssueLabels"))
             = 1 + 2 * Len(getCherrypickParentPRNums(body))
        /\ AllOk(run.calls) =>
             /\ labels = run.before \ needed
             /\ CallsOf("BotName") # {}
             /\ CallsOf("DeleteStaleComments") = {Len(run.calls)}

C15_Witness ==
  /\ RanPR /\ run.path = "exempt" /\ AllOk(run.calls)
  /\ run.before = {releaseNoteLabelNeeded, deprecatedReleaseNoteLabelNeeded, releaseNoteNone}
  /\ labels = {releaseNoteNone}
  /\ Len(getCherrypickParentPRNums(body)) = 2

\* C16 as stated: a handlePR run, every call succeeding, that finds only the
\* needed label on the PR and leaves release-note, release-note-none or
\* release-note-action-required on it, fetches the bot name and calls
\* DeleteStaleComments.
C16_AsStated ==
  (RanPR /\ AllOk(run.calls) /\ run.path = "applied"
     /\ run.before = {releaseNoteLabelNeeded}
     /\ labels \cap {releaseNote, releaseNoteNone, releaseNoteActionRequired} # {}) =>
    /\ CallsOf("BotName") # {}
    /\ CallsOf("DeleteStaleComments") # {}

\* a run of either handler that reached removeOtherLabels
RemovesOthers == run.handler \in {"pr", "comment"} /\ run.path = "applied"

\* the family labels removeOtherLabels has to remove, in the order of allRNLabels
OthersToRemove ==
  LET target == IF run.handler = "comment" THEN releaseNoteNone ELSE FinalTarget
  IN  SelectWhere(allRNLabels,
                  {k \in 1..Len(allRNLabels) :
                     allRNLabels[k] # target /\ allRNLabels[k] \in run.before})

\* whether a call of the run other than a RemoveLabel failed
OtherCallFailed ==
  \E i \in 1..Len(run.calls) : run.calls[i].op # "RemoveLabel" /\ ~run.calls[i].ok

\* C17 as stated: in a run of either handler that removes the other family
\* labels, failed removals alone do not make the handler return an error.
C17_AsStated ==
  (RemovesOthers /\ ~OtherCallFailed) => ~run.err

\* C17, amended: in both paths the last RemoveLabel calls of the run are one
\* for each family label that differs from the target and was among the
\* current labels, in the order of allRNLabels, whether or not an earlier
\* one failed.  In the pull-request path failed removals alone never make the
\* handler return an error; in the comment path the handler returns an error
\* exactly when one of them failed.
C17_RemovalErrors ==
  RemovesOthers =>
    LET removes == SelectWhere(run.calls, CallsOf("RemoveLabel"))
        n == Len(removes) - Len(OthersToRemove)
        failed == {i \in CallsOf("RemoveLabel") : ~run.calls[i].ok}
    IN  /\ n >= 0
        /\ \A k \in 1..Len(OthersToRemove) : removes[n + k].label = OthersToRemove[k]
        /\ run.handler = "pr" => (~OtherCallFailed => ~run.err)
        /\ run.handler = "comment" => (run.err <=> failed # {})

C17_Witness ==
  /\ RemovesOthers /\ run.handler = "comment" /\ run.err
  /\ Len(OthersToRemove) >= 2
  /\ \E i \in CallsOf("RemoveLabel"), j \in CallsOf("RemoveLabel") :
       i < j /\ ~run.calls[i].ok /\ run.calls[j].ok

\* C18: in a handlePR run, a failed fetch of the PR's labels is the only call
\* of the run; a failed fetch of the PR's comments is its last call, and the
\* run has issued no AddLabel, no RemoveLabel, no BotName and no
\* DeleteStaleComments call, so the labels are as found; a failed fetch of
\* the bot name is its last call, so DeleteStaleComments is not called.  In
\* each case the handler returns an error.
C18_RequiredCalls ==
  RanPR =>
    /\ ~run.calls[1].ok => Len(run.calls) = 1 /\ run.err
    /\ \A i \in CallsOf("ListIssueComments") :
         ~run.calls[i].ok =>
           /\ i = Len(run.calls) /\ run.err
           /\ LabelCalls = {} /\ labels = run.before
           /\ CallsOf("BotName") = {} /\ CallsOf("DeleteStaleComments") = {}
    /\ \A i \in CallsOf("BotName") :
         ~run.calls[i].ok =>
           i = Len(run.calls) /\ run.err /\ CallsOf("DeleteStaleComments") = {}

C18_Witness ==
  /\ RanPR /\ run.err
  /\ \E i \in CallsOf("BotName") : ~run.calls[i].ok
  /\ CallsOf("AddLabel") # {}
  /\ CallsOf("DeleteStaleComments") = {}

\* C19 as stated: while every comment on the PR that holds a
\* /release-note-none line was written by a user who is neither the author
\* nor a member, and the body's release-note block is not none, no run of
\* either path issues an AddLabel for release-note-none.
C19_AsStated ==
  (/\ run.handler \in {"pr", "comment"}
   /\ \A i \in 1..Len(comments) :
        HasCommand(comments[i].body, <<"/release-note", "-none">>) =>
          comments[i].user # Author /\ comments[i].user \notin Members
   /\ determineReleaseNoteLabel(body) # releaseNoteNone) =>
    \A i \in CallsOf("AddLabel") : run.calls[i].label # releaseNoteNone

\* C20 as stated: within one handlePR run no two RemoveLabel calls name the
\* same label, and at most one AddLabel call is issued.
C20_AsStated ==
  RanPR =>
    /\ \A i \in CallsOf("RemoveLabel"), j \in CallsOf("RemoveLabel") :
         i # j => run.calls[i].label # run.calls[j].label
    /\ Cardinality(CallsOf("AddLabel")) <= 1

====
